---- MODULE Spec2Model ----
(***************************************************************************)
(* AfroBase image server (main.go): POST /upload (handleImageUpload),      *)
(* GET /api/images (getImageList) and the gallery's use of the listed      *)
(* urls.  Go strings are byte strings: a string is modelled as a sequence  *)
(* of one-character strings, decoded image data as a sequence of bytes     *)
(* 0..255.  The storage directory ./uploads is a function from entry names *)
(* to entries.                                                             *)
(***************************************************************************)
EXTENDS Integers, Sequences, FiniteSets, TLC

VARIABLES
    dir,     \* ./uploads: entry name -> [kind, content, mtime]
    now,     \* time.Now().Unix()
    slot,    \* per concurrent handler: its position, locals and response
    arg,     \* input of the pure derivations (SpecSniff, SpecName)
    res      \* their result

vars == <<dir, now, slot, arg, res>>

-----------------------------------------------------------------------------
(* Bounds *)

\* SpecSniff: longest decoded byte sequence given to the sniffer
MaxDataLen == 4
\* SpecName: longest title prefix drawn from the whole title alphabet
MaxSeedLen == 2
\* SpecName: longest run of one repeated character appended to the prefix
MaxPad == 51
\* SpecName: largest timestamp
MaxStamp == 11
\* Spec: clock ticks
MaxTime == 1

-----------------------------------------------------------------------------
(* Strings *)

RECURSIVE Repeat(_, _)
Repeat(c, n) == IF n = 0 THEN <<>> ELSE <<c>> \o Repeat(c, n - 1)

\* all sequences over S of length at most n
RECURSIVE SeqsUpTo(_, _)
SeqsUpTo(S, n) ==
    IF n = 0 THEN {<<>>}
    ELSE LET shorter == SeqsUpTo(S, n - 1)
         IN shorter \cup {Append(s, c) : s \in {t \in shorter : Len(t) = n - 1}, c \in S}

HasPrefix(s, p) == Len(s) >= Len(p) /\ SubSeq(s, 1, Len(p)) = p

HasSuffix(s, p) == Len(s) >= Len(p) /\ SubSeq(s, Len(s) - Len(p) + 1, Len(s)) = p

\* strings.TrimSuffix
TrimSuffix(s, suffix) ==
    IF HasSuffix(s, suffix) THEN SubSeq(s, 1, Len(s) - Len(suffix)) ELSE s

\* strings.ReplaceAll for a one-byte old and a one-byte new
ReplaceAll(s, old, new) == [i \in 1..Len(s) |-> IF s[i] = old THEN new ELSE s[i]]

Digits == <<"0", "1", "2", "3", "4", "5", "6", "7", "8", "9">>

\* fmt's %d of a non-negative integer
RECURSIVE Itoa(_)
Itoa(n) == IF n < 10 THEN <<Digits[n + 1]>> ELSE Itoa(n \div 10) \o <<Digits[(n % 10) + 1]>>

-----------------------------------------------------------------------------
(* Filename Sanitizer *)

Forbidden == {" ", "/", "\\", ":", "*", "?", "\"", "<", ">", "|"}

MaxNameLen == 50

sanitizeFilename_KeepsBackslash(filename) ==
    LET r1 == ReplaceAll(filename, " ", "_")
        r2 == ReplaceAll(r1, "/", "-")
        r4 == ReplaceAll(r2, ":", "-")
        r5 == ReplaceAll(r4, "*", "-")
        r6 == ReplaceAll(r5, "?", "-")
        r7 == ReplaceAll(r6, "\"", "-")
        r8 == ReplaceAll(r7, "<", "-")
        r9 == ReplaceAll(r8, ">", "-")
        r10 == ReplaceAll(r9, "|", "-")
    IN IF Len(r10) > MaxNameLen THEN SubSeq(r10, 1, MaxNameLen) ELSE r10

sanitizeFilename_OffByOne(filename) ==
    LET r1 == ReplaceAll(filename, " ", "_")
        r2 == ReplaceAll(r1, "/", "-")
        r3 == ReplaceAll(r2, "\\", "-")
        r4 == ReplaceAll(r3, ":", "-")
        r5 == ReplaceAll(r4, "*", "-")
        r6 == ReplaceAll(r5, "?", "-")
        r7 == ReplaceAll(r6, "\"", "-")
        r8 == ReplaceAll(r7, "<", "-")
        r9 == ReplaceAll(r8, ">", "-")
        r10 == ReplaceAll(r9, "|", "-")
    IN IF Len(r10) > MaxNameLen + 1 THEN SubSeq(r10, 1, MaxNameLen + 1) ELSE r10

sanitizeFilename(filename) ==
    LET r1 == ReplaceAll(filename, " ", "_")
        r2 == ReplaceAll(r1, "/", "-")
        r3 == ReplaceAll(r2, "\\", "-")
        r4 == ReplaceAll(r3, ":", "-")
        r5 == ReplaceAll(r4, "*", "-")
        r6 == ReplaceAll(r5, "?", "-")
        r7 == ReplaceAll(r6, "\"", "-")
        r8 == ReplaceAll(r7, "<", "-")
        r9 == ReplaceAll(r8, ">", "-")
        r10 == ReplaceAll(r9, "|", "-")
    IN IF Len(r10) > MaxNameLen THEN SubSeq(r10, 1, MaxNameLen) ELSE r10

-----------------------------------------------------------------------------
(* Content Sniffer *)

ExtJpg == <<".", "j", "p", "g">>
ExtPng == <<".", "p", "n", "g">>
ExtGif == <<".", "g", "i", "f">>
ExtWebp == <<".", "w", "e", "b", "p">>
Exts == {ExtJpg, ExtPng, ExtGif, ExtWebp}

\* 0xFF 0xD8 / 0x89 0x50 0x4E 0x47 / 0x47 0x49 0x46 / 0x52 0x49 0x46 0x46
MagicJpg == <<255, 216>>
MagicPng == <<137, 80, 78, 71>>
MagicGif == <<71, 73, 70>>
MagicWebp == <<82, 73, 70, 70>>

SniffExt_NoLengthCheck(imageData) ==
    CASE HasPrefix(imageData, MagicJpg) -> ExtJpg
      [] HasPrefix(imageData, MagicPng) -> ExtPng
      [] HasPrefix(imageData, MagicGif) -> ExtGif
      [] HasPrefix(imageData, MagicWebp) -> ExtWebp
      [] OTHER -> ExtJpg

SniffExt(imageData) ==
    IF Len(imageData) >= 4
    THEN CASE imageData[1] = 255 /\ imageData[2] = 216 -> ExtJpg
           [] imageData[1] = 137 /\ imageData[2] = 80 /\ imageData[3] = 78 /\ imageData[4] = 71 -> ExtPng
           [] imageData[1] = 71 /\ imageData[2] = 73 /\ imageData[3] = 70 -> ExtGif
           [] imageData[1] = 82 /\ imageData[2] = 73 /\ imageData[3] = 70 /\ imageData[4] = 70 -> ExtWebp
           [] OTHER -> ExtJpg
    ELSE ExtJpg

-----------------------------------------------------------------------------
(* Filename derivation *)

FallbackTitle == <<"i", "m", "a", "g", "e">>

TitleComponent_NoFallback(title) == sanitizeFilename(title)

\* sanitizedTitle after the caller's fallback
TitleComponent(title) ==
    LET sanitizedTitle == sanitizeFilename(title)
    IN IF sanitizedTitle = <<>> THEN FallbackTitle ELSE sanitizedTitle

\* fmt.Sprintf("%d_%s%s", timestamp, sanitizedTitle, fileExt)
Filename(timestamp, title, fileExt) ==
    Itoa(timestamp) \o <<"_">> \o TitleComponent(title) \o fileExt

-----------------------------------------------------------------------------
(* base64.StdEncoding.DecodeString *)

B64Alphabet ==
    <<"A", "B", "C", "D", "E", "F", "G", "H", "I", "J", "K", "L", "M", "N", "O", "P",
      "Q", "R", "S", "T", "U", "V", "W", "X", "Y", "Z", "a", "b", "c", "d", "e", "f",
      "g", "h", "i", "j", "k", "l", "m", "n", "o", "p", "q", "r", "s", "t", "u", "v",
      "w", "x", "y", "z", "0", "1", "2", "3", "4", "5", "6", "7", "8", "9", "+", "/">>

B64Chars == {B64Alphabet[i] : i \in 1..64}

B64Value(c) == (CHOOSE i \in 1..64 : B64Alphabet[i] = c) - 1

\* the bytes of one quantum of j leading alphabet characters (j = 4, 3, 2)
Quantum(t, j) ==
    LET v == B64Value(t[1]) * 262144 + B64Value(t[2]) * 4096
             + (IF j >= 3 THEN B64Value(t[3]) * 64 ELSE 0)
             + (IF j >= 4 THEN B64Value(t[4]) ELSE 0)
        b == <<v \div 65536, (v \div 256) % 256, v % 256>>
    IN SubSeq(b, 1, j - 1)

\* how many of the first four characters of t are alphabet characters,
\* counted up to the first that is not
RECURSIVE Leading(_, _)
Leading(t, j) ==
    IF j < 4 /\ Len(t) > j /\ t[j + 1] \in B64Chars THEN Leading(t, j + 1) ELSE j

Corrupt == [ok |-> FALSE, data |-> <<>>]

\* the decoder's loop over quanta; t has no CR or LF left
RECURSIVE DecodeQuanta(_, _)
DecodeQuanta(t, out) ==
    IF t = <<>> THEN [ok |-> TRUE, data |-> out]
    ELSE LET j == Leading(t, 0)
         IN IF j = 4 THEN DecodeQuanta(SubSeq(t, 5, Len(t)), out \o Quantum(t, 4))
            ELSE IF Len(t) = j THEN Corrupt
            ELSE IF t[j + 1] # "=" THEN Corrupt
            ELSE IF j < 2 THEN Corrupt
            ELSE IF j = 2
                 THEN IF Len(t) = 4 /\ t[4] = "="
                      THEN [ok |-> TRUE, data |-> out \o Quantum(t, 2)]
                      ELSE Corrupt
            ELSE IF Len(t) = 4
                 THEN [ok |-> TRUE, data |-> out \o Quantum(t, 3)]
                 ELSE Corrupt

IsNewline(c) == c \in {"\n", "\r"}

DecodeString(s) == DecodeQuanta(SelectSeq(s, LAMBDA c : ~IsNewline(c)), <<>>)

-----------------------------------------------------------------------------
(* Byte order of the characters that occur in entry names *)

CharOrder ==
    <<" ", "!", "\"", "#", "%", "*", "+", "-", ".", "/", "0", "1", "2", "3", "4", "5",
      "6", "7", "8", "9", ":", "<", "=", ">", "?", "A", "B", "C", "D", "E", "F", "G",
      "H", "I", "J", "K", "L", "M", "N", "O", "P", "Q", "R", "S", "T", "U", "V", "W",
      "X", "Y", "Z", "\\", "_", "a", "b", "c", "d", "e", "f", "g", "h", "i", "j", "k",
      "l", "m", "n", "o", "p", "q", "r", "s", "t", "u", "v", "w", "x", "y", "z", "|">>

Ord(c) == CHOOSE i \in 1..Len(CharOrder) : CharOrder[i] = c

\* a < b as Go compares strings
RECURSIVE LexLess(_, _)
LexLess(a, b) ==
    IF b = <<>> THEN FALSE
    ELSE IF a = <<>> THEN TRUE
    ELSE IF a[1] # b[1] THEN Ord(a[1]) < Ord(b[1])
    ELSE LexLess(Tail(a), Tail(b))

RECURSIVE SortNames(_)
SortNames(S) ==
    IF S = {} THEN <<>>
    ELSE LET m == CHOOSE x \in S : \A y \in S \ {x} : LexLess(x, y)
         IN <<m>> \o SortNames(S \ {m})

-----------------------------------------------------------------------------
(* The storage directory *)

Procs == {1, 2}

\* create the file, or truncate the one that is there (O_WRONLY|O_CREATE|O_TRUNC)
OpenFile_NoTrunc(d, name, t) ==
    [n \in DOMAIN d \cup {name} |->
        IF n = name /\ n \notin DOMAIN d
        THEN [kind |-> "file", content |-> <<>>, mtime |-> t]
        ELSE d[n]]

OpenFile(d, name, t) ==
    [n \in DOMAIN d \cup {name} |->
        IF n = name THEN [kind |-> "file", content |-> <<>>, mtime |-> t] ELSE d[n]]

\* a write of bytes at offset 0 of an open file
WriteAt(d, name, bytes, t) ==
    IF bytes = <<>> THEN d
    ELSE [d EXCEPT ![name] =
            [kind |-> "file",
             content |-> bytes \o SubSeq(d[name].content, Len(bytes) + 1, Len(d[name].content)),
             mtime |-> t]]

\* ioutil.ReadDir: the entries by Lstat, sorted by name
ReadDir(d) ==
    LET names == SortNames(DOMAIN d)
    IN [i \in 1..Len(names) |-> [name |-> names[i], isDir |-> d[names[i]].kind = "dir"]]

\* os.Stat follows a symbolic link and fails when its target is missing
StatOk(d, name) == name \in DOMAIN d /\ d[name].kind # "dangling"

\* filepath.Ext of a name without path separators: from its last dot on
Ext(name) ==
    LET dots == {i \in 1..Len(name) : name[i] = "."}
    IN IF dots = {} THEN <<>>
       ELSE LET last == CHOOSE i \in dots : \A k \in dots : k <= i
            IN SubSeq(name, last, Len(name))

UrlBase == <<"h", "t", "t", "p", ":", "/", "/", "l", "o", "c", "a", "l", "h", "o", "s", "t", ":", "5", "1", "7", "4", "/", "u", "p", "l", "o", "a", "d", "s", "/">>
UploadsPath == <<"/", "u", "p", "l", "o", "a", "d", "s", "/">>
Placeholder == "Uploaded image"

\* the record getImageList builds for one entry
ImageRecord(d, name) ==
    [name |-> name,
     size |-> Len(d[name].content),
     upload_time |-> d[name].mtime,
     title |-> TrimSuffix(name, Ext(name)),
     description |-> Placeholder,
     url |-> UrlBase \o name]

\* the file a client reaches through a listed url: the gallery hands the url
\* to an <img>, which requests the path up to the first "?" or "#"; the
\* static route maps /uploads/<rest> to the entry <rest>
RECURSIVE UpToDelimiter(_)
UpToDelimiter(s) ==
    IF s = <<>> \/ s[1] \in {"?", "#"} THEN <<>> ELSE <<s[1]>> \o UpToDelimiter(Tail(s))

ResolveUrl(url) ==
    IF HasPrefix(url, UrlBase)
    THEN UpToDelimiter(SubSeq(url, Len(UrlBase) + 1, Len(url)))
    ELSE <<>>

-----------------------------------------------------------------------------
(* Requests *)

ServerTitles == {<<>>, <<"M", "y", " ", "P", "h", "o", "t", "o", "!">>, <<"a", "#", "b">>}

Descriptions == {<<>>, <<"d">>}

\* "", "%%%", a PNG without its padding, two PNGs of 4 and 5 bytes, and a
\* line break alone (which decodes to no bytes)
ImgEmpty == <<>>
ImgPercent == <<"%", "%", "%">>
ImgNoPad == <<"i", "V", "B", "O", "R", "w">>
ImgPng4 == <<"i", "V", "B", "O", "R", "w", "=", "=">>
ImgPng5 == <<"i", "V", "B", "O", "R", "w", "A", "=">>
ImgNewline == <<"\n">>
ServerImages == {ImgEmpty, ImgPercent, ImgNoPad, ImgPng4, ImgPng5, ImgNewline}

\* what c.BodyParser leaves: an error, or the payload
UploadBodies ==
    {[parsed |-> FALSE, title |-> <<>>, image |-> <<>>]}
    \cup [parsed : {TRUE}, title : ServerTitles, image : ServerImages]

ErrBody == "Invalid request body"
ErrRequired == "Image data is required"
ErrBase64 == "Invalid base64 image data"
ErrSave == "Failed to save image"
ErrReadDir == "Failed to read uploads directory"

IdleSlot ==
    [pc |-> "idle", kind |-> "none", parsed |-> FALSE,
     title |-> <<>>, image |-> <<>>, imageData |-> <<>>, fileExt |-> <<>>,
     timestamp |-> 0, filename |-> <<>>, status |-> 0, error |-> "", url |-> <<>>,
     entries |-> <<>>, images |-> <<>>,
     wrote |-> {},      \* history: the entries this request created or changed
     after |-> {}]      \* history: the uploads answered 200 before it touched dir

Respond(s, status, error) == [s EXCEPT !.pc = "done", !.status = status, !.error = error]

\* each handler takes one request
Free(p) == slot[p].pc = "idle"

\* the uploads already answered 200
DoneUploads ==
    {q \in Procs : slot[q].kind = "upload" /\ slot[q].pc = "done" /\ slot[q].status = 200}

-----------------------------------------------------------------------------
(* POST /upload *)

\* the checks before anything is derived: the error answered, or "" to go on
Validate_NoRequiredCheck(body) ==
    IF ~body.parsed THEN ErrBody
    ELSE IF ~DecodeString(body.image).ok THEN ErrBase64
    ELSE ""

Validate_IgnoresDecodeError(body) ==
    IF ~body.parsed THEN ErrBody
    ELSE IF body.image = <<>> THEN ErrRequired
    ELSE ""

Validate(body) ==
    IF ~body.parsed THEN ErrBody
    ELSE IF body.image = <<>> THEN ErrRequired
    ELSE IF ~DecodeString(body.image).ok THEN ErrBase64
    ELSE ""

SaveFailure_AsClientError(s) == Respond(s, 400, ErrSave)

SaveFailure(s) == Respond(s, 500, ErrSave)

Success(s) == [Respond(s, 200, "") EXCEPT !.url = UploadsPath \o s.filename]

\* parse, validate, decode, sniff and name: everything up to the write
handleImageUpload_Parse(p) ==
    /\ Free(p)
    /\ \E body \in UploadBodies, description \in Descriptions :
          LET s == [IdleSlot EXCEPT !.kind = "upload",
                                    !.parsed = body.parsed, !.title = body.title,
                                    !.image = body.image]
              imageData == DecodeString(body.image).data
              fileExt == SniffExt(imageData)
          IN slot' = [slot EXCEPT ![p] =
                        IF Validate(body) # "" THEN Respond(s, 400, Validate(body))
                        ELSE [s EXCEPT !.pc = "open", !.imageData = imageData,
                                       !.fileExt = fileExt, !.timestamp = now,
                                       !.filename = Filename(now, body.title, fileExt)]]
    /\ UNCHANGED <<dir, now, arg, res>>

\* ioutil.WriteFile, first half: open the file, creating or truncating it
handleImageUpload_Open(p) ==
    /\ slot[p].pc = "open"
    /\ \E opened \in BOOLEAN :
          IF opened
          THEN /\ dir' = OpenFile(dir, slot[p].filename, now)
               /\ slot' = [slot EXCEPT ![p].pc = "write",
                                       ![p].wrote = {slot[p].filename},
                                       ![p].after = DoneUploads]
          ELSE /\ slot' = [slot EXCEPT ![p] = SaveFailure(slot[p])]
               /\ UNCHANGED dir
    /\ UNCHANGED <<now, arg, res>>

\* ioutil.WriteFile, second half: write (all, or on an error the first k
\* bytes), close, and answer
handleImageUpload_Write(p) ==
    /\ slot[p].pc = "write"
    /\ \E k \in 0..Len(slot[p].imageData), closed \in BOOLEAN :
          /\ closed => k = Len(slot[p].imageData)
          /\ dir' = WriteAt(dir, slot[p].filename, SubSeq(slot[p].imageData, 1, k), now)
          /\ slot' = [slot EXCEPT ![p] =
                        IF closed THEN Success(slot[p]) ELSE SaveFailure(slot[p])]
    /\ UNCHANGED <<now, arg, res>>

-----------------------------------------------------------------------------
(* GET /api/images *)

\* the loop over the entries read: a record for each that is no directory
\* and whose Stat succeeds
RECURSIVE Images_ListsDirectories(_, _)
Images_ListsDirectories(d, entries) ==
    IF entries = <<>> THEN <<>>
    ELSE LET file == Head(entries)
             rest == Images_ListsDirectories(d, Tail(entries))
         IN IF StatOk(d, file.name) THEN <<ImageRecord(d, file.name)>> \o rest ELSE rest

RECURSIVE Images(_, _)
Images(d, entries) ==
    IF entries = <<>> THEN <<>>
    ELSE LET file == Head(entries)
             rest == Images(d, Tail(entries))
         IN IF ~file.isDir /\ StatOk(d, file.name)
            THEN <<ImageRecord(d, file.name)>> \o rest
            ELSE rest

getImageList_ReadDir(p) ==
    /\ Free(p)
    /\ \E readable \in BOOLEAN :
          LET s == [IdleSlot EXCEPT !.kind = "list"]
          IN slot' = [slot EXCEPT ![p] =
                        IF readable
                        THEN [s EXCEPT !.pc = "stat", !.entries = ReadDir(dir),
                                       !.after = DoneUploads]
                        ELSE Respond(s, 500, ErrReadDir)]
    /\ UNCHANGED <<dir, now, arg, res>>

getImageList_Stat(p) ==
    /\ slot[p].pc = "stat"
    /\ slot' = [slot EXCEPT ![p] =
                  [Respond(slot[p], 200, "") EXCEPT !.images = Images(dir, slot[p].entries)]]
    /\ UNCHANGED <<dir, now, arg, res>>

-----------------------------------------------------------------------------
(* The server *)

Tick ==
    /\ now < MaxTime
    /\ now' = now + 1
    /\ UNCHANGED <<dir, slot, arg, res>>

Entry(kind, content) == [kind |-> kind, content |-> content, mtime |-> 0]

NameSub == <<"s", "u", "b">>
NameLink == <<"l", "i", "n", "k">>
NameReadme == <<"R", "E", "A", "D", "M", "E">>
NameOld == <<"o", "l", "d", ".", "v", "1", ".", "p", "n", "g">>

EmptyDir == [n \in {} |-> Entry("file", <<>>)]

\* what ./uploads may hold when the server starts: nothing, a subdirectory
\* alone, or a subdirectory, a dangling link and two files
InitialDirs ==
    {EmptyDir,
     [n \in {NameSub} |-> Entry("dir", <<>>)],
     [n \in {NameSub, NameLink, NameReadme, NameOld} |->
        CASE n = NameSub -> Entry("dir", <<>>)
          [] n = NameLink -> Entry("dangling", <<>>)
          [] n = NameReadme -> Entry("file", <<0>>)
          [] OTHER -> Entry("file", <<137, 80>>)]}

NoPure == [kind |-> "none"]

Init ==
    /\ dir \in InitialDirs
    /\ now = 0
    /\ slot = [p \in Procs |-> IdleSlot]
    /\ arg = NoPure
    /\ res = NoPure

Next ==
    \/ \E p \in Procs : handleImageUpload_Parse(p)
    \/ \E p \in Procs : handleImageUpload_Open(p)
    \/ \E p \in Procs : handleImageUpload_Write(p)
    \/ \E p \in Procs : getImageList_ReadDir(p)
    \/ \E p \in Procs : getImageList_Stat(p)
    \/ Tick

Spec == Init /\ [][Next]_vars

-----------------------------------------------------------------------------
(* The sniffer alone, on every byte sequence over the magic bytes *)

SniffBytes == {255, 216, 137, 80, 78, 71, 73, 70, 82, 0}

InitServerIdle ==
    /\ dir = EmptyDir
    /\ now = 0
    /\ slot = [p \in Procs |-> IdleSlot]

InitSniff ==
    /\ InitServerIdle
    /\ arg \in [kind : {"sniff"}, imageData : SeqsUpTo(SniffBytes, MaxDataLen)]
    /\ res = NoPure

Sniff ==
    /\ arg.kind = "sniff"
    /\ res = NoPure
    /\ res' = [kind |-> "sniff", fileExt |-> SniffExt(arg.imageData)]
    /\ UNCHANGED <<dir, now, slot, arg>>

SpecSniff == InitSniff /\ [][Sniff]_vars

-----------------------------------------------------------------------------
(* The filename derivation alone, on short titles over the forbidden      *)
(* characters and two others, each also lengthened past the limit         *)

TitleChars == Forbidden \cup {"a", "#"}

PadChars == {"a", "/"}

\* no padding, or enough to bring a title to within one of the limit or past it
PadLens == {0} \cup {k \in 0..MaxPad : k + MaxSeedLen + 1 >= MaxNameLen}

Titles ==
    {seed \o Repeat(c, k) : seed \in SeqsUpTo(TitleChars, MaxSeedLen),
                             c \in PadChars, k \in PadLens}

Stamps == {0, MaxStamp}

NameExts == {ExtJpg, ExtWebp}

InitName ==
    /\ InitServerIdle
    /\ arg \in [kind : {"name"}, title : Titles, timestamp : Stamps, fileExt : NameExts]
    /\ res = NoPure

Derive ==
    /\ arg.kind = "name"
    /\ res = NoPure
    /\ res' = [kind |-> "name",
               sanitized |-> sanitizeFilename(arg.title),
               titlePart |-> TitleComponent(arg.title),
               filename |-> Filename(arg.timestamp, arg.title, arg.fileExt)]
    /\ UNCHANGED <<dir, now, slot, arg>>

SpecName == InitName /\ [][Derive]_vars

-----------------------------------------------------------------------------
(* Claims about the derivations *)

Recognized(imageData) ==
    \/ HasPrefix(imageData, MagicJpg)
    \/ HasPrefix(imageData, MagicPng)
    \/ HasPrefix(imageData, MagicGif)
    \/ HasPrefix(imageData, MagicWebp)

\* C8: the sniffer returns .jpg for at least 4 bytes starting FF D8, .png for
\* a start of 89 50 4E 47, .gif for at least 4 bytes starting 47 49 46, .webp
\* for a start of 52 49 46 46, and the default .jpg for every sequence
\* shorter than 4 bytes or with another prefix; it always returns one of the
\* four extensions.
C8_SnifferTable ==
    res.kind = "sniff" =>
        LET d == arg.imageData
        IN /\ res.fileExt \in Exts
           /\ (Len(d) >= 4 /\ HasPrefix(d, MagicJpg)) => res.fileExt = ExtJpg
           /\ HasPrefix(d, MagicPng) => res.fileExt = ExtPng
           /\ (Len(d) >= 4 /\ HasPrefix(d, MagicGif)) => res.fileExt = ExtGif
           /\ HasPrefix(d, MagicWebp) => res.fileExt = ExtWebp
           /\ (Len(d) < 4 \/ ~Recognized(d)) => res.fileExt = ExtJpg

\* a GIF prefix of three bytes only has been sniffed, and got the default
C8_Witness ==
    /\ res.kind = "sniff"
    /\ arg.imageData = MagicGif
    /\ res.fileExt = ExtJpg

\* C7: the sanitizer's output holds none of the ten forbidden characters and
\* is at most 50 long (as an operator of its input it is the same for the
\* same input).
C7_SanitizerOutput ==
    res.kind = "name" =>
        /\ \A i \in 1..Len(res.sanitized) : res.sanitized[i] \notin Forbidden
        /\ Len(res.sanitized) <= 50

\* a title longer than 50 that holds forbidden characters has been cut to 50
C7_Witness ==
    /\ res.kind = "name"
    /\ Len(arg.title) > 50
    /\ \E i \in 1..Len(arg.title) : arg.title[i] \in Forbidden
    /\ Len(res.sanitized) = 50

AllForbidden(title) == \A i \in 1..Len(title) : title[i] \in Forbidden

\* C2 as stated: an empty or all-forbidden title gives the title component
\* "image".
C2_Original ==
    (res.kind = "name" /\ AllForbidden(arg.title)) => res.titlePart = FallbackTitle

\* C2 amended: the empty title gives the title component "image"; a non-empty
\* title of forbidden characters only gives its first 50 characters with "_"
\* for each space and "-" for each other one, which is never "image".
C2_FallbackOnlyForEmpty ==
    res.kind = "name" =>
        /\ arg.title = <<>> => res.titlePart = FallbackTitle
        /\ (arg.title # <<>> /\ AllForbidden(arg.title)) =>
              /\ Len(res.titlePart) = (IF Len(arg.title) > 50 THEN 50 ELSE Len(arg.title))
              /\ \A i \in 1..Len(res.titlePart) :
                    res.titlePart[i] = (IF arg.title[i] = " " THEN "_" ELSE "-")
              /\ res.titlePart # FallbackTitle

\* the empty title has been named
C2_Witness ==
    /\ res.kind = "name"
    /\ arg.title = <<>>
    /\ res.titlePart = FallbackTitle

\* C10: the generated filename holds no "/" and no "\", and is neither "."
\* nor "..": joined to the storage directory it names a direct child of it.
C10_DirectChild ==
    res.kind = "name" =>
        /\ \A i \in 1..Len(res.filename) : res.filename[i] \notin {"/", "\\"}
        /\ res.filename \notin {<<".">>, <<".", ".">>}

\* a title holding both separators has been named
C10_Witness ==
    /\ res.kind = "name"
    /\ \E i \in 1..Len(arg.title) : arg.title[i] = "/"
    /\ \E i \in 1..Len(arg.title) : arg.title[i] = "\\"
    /\ HasSuffix(res.filename, arg.fileExt)

-----------------------------------------------------------------------------
(* Claims about the server *)

UploadDone(p) == slot[p].kind = "upload" /\ slot[p].pc = "done"

ListDone(q) == slot[q].kind = "list" /\ slot[q].pc = "done"

ForeignNames == {NameSub, NameLink, NameReadme, NameOld}

\* the entries uploads have made
Stored == DOMAIN dir \ ForeignNames

\* C1 as stated: an upload answered with an error has created or changed no
\* entry of the storage directory.
C1_Original ==
    \A p \in Procs :
        (UploadDone(p) /\ slot[p].status \in {400, 500}) => slot[p].wrote = {}

\* C1 amended: an upload answered 400 has created or changed no entry; one
\* answered 500 "Failed to save image" has created or changed at most the
\* file it was to write.
C1_ErrorsBeforeWrite ==
    \A p \in Procs :
        UploadDone(p) =>
            /\ slot[p].status \in {200, 400, 500}
            /\ slot[p].status = 400 =>
                  /\ slot[p].error \in {ErrBody, ErrRequired, ErrBase64}
                  /\ slot[p].wrote = {}
            /\ slot[p].status = 500 =>
                  /\ slot[p].error = ErrSave
                  /\ slot[p].wrote \subseteq {slot[p].filename}

\* one upload has been answered 400 and the directory is as at the start;
\* the other then failed in its write and left a shortened file
C1_Witness ==
    \E p, q \in Procs :
        /\ UploadDone(p) /\ slot[p].status = 400 /\ slot[p].error = ErrBase64
        /\ UploadDone(q) /\ slot[q].status = 500
        /\ Stored = {slot[q].filename}
        /\ Len(dir[slot[q].filename].content) < Len(slot[q].imageData)

\* C5: an upload whose image field is "" is answered 400 "Image data is
\* required" and has written nothing, whatever its title and description.
C5_EmptyImage ==
    \A p \in Procs :
        (UploadDone(p) /\ slot[p].parsed /\ slot[p].image = <<>>) =>
            /\ slot[p].status = 400
            /\ slot[p].error = ErrRequired
            /\ slot[p].wrote = {}

\* an upload with a title and no image has been answered, nothing is stored
C5_Witness ==
    \E p \in Procs :
        /\ UploadDone(p) /\ slot[p].parsed /\ slot[p].image = <<>>
        /\ slot[p].title # <<>>
        /\ slot[p].status = 400
        /\ Stored = {}

\* standard base64 (RFC 4648, line breaks ignored): a multiple of four
\* alphabet characters, the last one or two of which may be "="
ValidStdBase64(s) ==
    LET t == SelectSeq(s, LAMBDA c : ~IsNewline(c))
        n == Len(t)
    IN /\ n % 4 = 0
       /\ \A i \in 1..n : t[i] \in B64Chars \/ (t[i] = "=" /\ i >= n - 1)
       /\ (n > 0 /\ t[n - 1] = "=") => t[n] = "="

\* C6: an upload whose image field is not empty and not valid standard
\* base64 is answered 400 "Invalid base64 image data" and has written
\* nothing.
C6_InvalidBase64 ==
    \A p \in Procs :
        (UploadDone(p) /\ slot[p].parsed /\ slot[p].image # <<>>
                       /\ ~ValidStdBase64(slot[p].image)) =>
            /\ slot[p].status = 400
            /\ slot[p].error = ErrBase64
            /\ slot[p].wrote = {}

\* "%%%%%%" has been answered, nothing is stored
C6_Witness ==
    \E p \in Procs :
        /\ UploadDone(p) /\ slot[p].image = ImgPercent
        /\ slot[p].status = 400
        /\ Stored = {}


\* an upload answered 200, the only one, then a list request, on a directory
\* that was empty
RoundTrip(p, q) ==
    /\ Stored = DOMAIN dir
    /\ \A r \in Procs \ {p} : slot[r].kind # "upload"
    /\ UploadDone(p) /\ slot[p].status = 200
    /\ ListDone(q) /\ slot[q].status = 200
    /\ p \in slot[q].after

\* C3 as stated: after a successful upload of bytes B to an empty directory,
\* a list request yields exactly one entry; its name ends in the extension
\* sniffed from B, its title is the name without that extension, and its url
\* leads to a stored file whose content is B.
C3_RoundTrip ==
    \A p, q \in Procs :
        RoundTrip(p, q) =>
            /\ Len(slot[q].images) = 1
            /\ LET r == slot[q].images[1]
                   e == SniffExt(slot[p].imageData)
               IN /\ HasSuffix(r.name, e)
                  /\ r.title \o e = r.name
                  /\ ResolveUrl(r.url) \in DOMAIN dir
                  /\ dir[ResolveUrl(r.url)].content = slot[p].imageData

\* the same round trip with the listed name, not the url, taken to find the
\* stored file (holds; the url is what C3_RoundTrip fails on)
C3_RoundTripByName ==
    \A p, q \in Procs :
        RoundTrip(p, q) =>
            /\ Len(slot[q].images) = 1
            /\ LET r == slot[q].images[1]
                   e == SniffExt(slot[p].imageData)
               IN /\ HasSuffix(r.name, e)
                  /\ r.title \o e = r.name
                  /\ r.name \in DOMAIN dir
                  /\ dir[r.name].content = slot[p].imageData
                  /\ ("#" \notin {slot[p].title[i] : i \in 1..Len(slot[p].title)}) =>
                        ResolveUrl(r.url) = r.name

\* two uploads answered 200, the second opened after the first was answered,
\* with the same sanitized title, extension and second (and no third request
\* at work on the file of the second)
SameSecond(p, q) ==
    /\ p # q
    /\ UploadDone(p) /\ slot[p].status = 200
    /\ UploadDone(q) /\ slot[q].status = 200
    /\ p \in slot[q].after
    /\ sanitizeFilename(slot[p].title) = sanitizeFilename(slot[q].title)
    /\ slot[p].fileExt = slot[q].fileExt
    /\ slot[p].timestamp = slot[q].timestamp
    /\ \A r \in Procs \ {p, q} : slot[q].filename \notin slot[r].wrote

Names(records) == [i \in 1..Len(records) |-> records[i].name]

NonDirectories(entries) == SelectSeq(entries, LAMBDA f : ~f.isDir)

Statable(entries) == SelectSeq(entries, LAMBDA f : ~f.isDir /\ StatOk(dir, f.name))

\* the name is the title followed by nothing (a name without a dot) or by a
\* suffix that starts with the name's last dot
TitleOf(r) ==
    \E k \in 0..Len(r.name) :
        /\ r.title = SubSeq(r.name, 1, k)
        /\ \A i \in k + 2..Len(r.name) : r.name[i] # "."
        /\ IF k = Len(r.name) THEN \A i \in 1..k : r.name[i] # "."
           ELSE r.name[k + 1] = "."

RecordsFor(q, entries) ==
    /\ slot[q].status = 200
    /\ Names(slot[q].images) = Names(entries)
    /\ \A i \in 1..Len(slot[q].images) :
          /\ slot[q].images[i].description = "Uploaded image"
          /\ TitleOf(slot[q].images[i])

\* C9 as stated: a list request on a readable directory answers 200 with one
\* record for each entry read that is no directory, each with description
\* "Uploaded image" and title the name without its extension ([] if none).
C9_Original ==
    \A q \in Procs :
        (ListDone(q) /\ slot[q].error # ErrReadDir) =>
            RecordsFor(q, NonDirectories(slot[q].entries))

\* C9 amended: ... one record for each entry read that is no directory and
\* whose os.Stat succeeds; an entry whose Stat fails (a dangling symbolic
\* link) is left out.
C9_ListsStatableFiles ==
    \A q \in Procs :
        (ListDone(q) /\ slot[q].error # ErrReadDir) =>
            RecordsFor(q, Statable(slot[q].entries))

\* a directory with a subdirectory, a dangling link and two files has been
\* listed: two records
C9_Witness ==
    \E q \in Procs :
        /\ ListDone(q) /\ slot[q].status = 200
        /\ Len(slot[q].entries) = 4
        /\ Len(slot[q].images) = 2
        /\ slot[q].images[1].title = NameReadme

====
